---- MODULE Spec2Model ----
(***************************************************************************)
(* ChainProofRHG (src/classes/rng.py): the chain-proof random hit          *)
(* generator.  Probabilities are Python floats in the source; here they    *)
(* are fixed-point integers, One standing for 1.0, so that every float     *)
(* operation of the source is an integer operation on multiples of 1/One. *)
(* A call that raises is a record whose kind names the exception.          *)
(***************************************************************************)
EXTENDS Integers, Sequences, FiniteSets, TLC

\* ------------------------------------------------------------ fixed point

\* Base of the two limbs MulQ splits a factor into.
Limb == 10^4
\* The fixed-point representation of 1.0: a float is a multiple of 1e-8.
One == Limb * Limb
\* The decimal digits of One.
OneDigits == 4 + 4

Abs(x) == IF x < 0 THEN -x ELSE x
Min(a, b) == IF a <= b THEN a ELSE b
Max(a, b) == IF a >= b THEN a ELSE b

\* float a * b for 0 <= a, b: floor(a * b / One), limb by limb so that no
\* intermediate product leaves the 32-bit integers of the checker.
MulQ(a, b) ==
    LET ah == a \div Limb
        al == a % Limb
        bh == b \div Limb
        bl == b % Limb
    IN  ah * bh + ((ah * bl + al * bh) + ((al * bl) \div Limb)) \div Limb

\* One addition of r into acc modulo h, counting the carries in d.
AddStep(acc, d, r, h) ==
    IF acc >= h - r THEN <<acc - (h - r), d + 1>> ELSE <<acc + r, d>>

RECURSIVE TimesTen(_, _, _, _, _)
\* <<(10 * r) % h, (10 * r) \div h>> for 0 <= r < h, without forming 10 * r.
TimesTen(acc, d, n, r, h) ==
    IF n = 0 THEN <<acc, d>>
    ELSE LET s == AddStep(acc, d, r, h) IN TimesTen(s[1], s[2], n - 1, r, h)

RECURSIVE LongDiv(_, _, _, _)
LongDiv(q, r, h, digits) ==
    IF digits = 0 THEN q
    ELSE IF r <= 200000000
         THEN LongDiv(10 * q + ((10 * r) \div h), (10 * r) % h, h, digits - 1)
         ELSE LET s == TimesTen(0, 0, 10, r, h)
              IN  LongDiv(10 * q + s[2], s[1], h, digits - 1)

\* float n / h for n >= 0, h > 0: floor(n * One / h) by long division.
DivQ(n, h) == LongDiv(n \div h, n % h, h, OneDigits)

\* Python round(x, places) of a float x >= 0: to the nearest multiple of
\* 10^-places, ties to even.
Round(x, places) ==
    LET u == 10^(OneDigits - places)
        q == x \div u
        r == x % u
    IN  IF 2 * r > u \/ (2 * r = u /\ q % 2 = 1) THEN (q + 1) * u ELSE q * u

\* ------------------------------------------------------------ outcomes

\* What a call does: it returns val (kind "ok"), or it raises the exception
\* kind with the message msg.
Ok(v) == [kind |-> "ok", val |-> v, msg |-> "none"]
RaiseWith(e, m) == [kind |-> e, val |-> 0, msg |-> m]
Raise(e) == RaiseWith(e, "none")

\* ValueError('Probability values lie between 0 and 1 inclusive.')
InvalidProbability == RaiseWith("ValueError", "probability")
\* ValueError('Expected epsilon value too large')
EpsilonTooLarge == RaiseWith("ValueError", "epsilon")
\* ValueError('math domain error'), from log10 of an epsilon <= 0.
MathDomainError == RaiseWith("ValueError", "math domain")

\* ------------------------------------------------- ProbabilityConversion

\* EPSILON, the default precision (1e-6).
EPSILON == One \div 10^6
\* The largest epsilon __init__ accepts (1e-4).
EpsilonMax == One \div 10^4

\* One pass of the loop of base_to_mean, attempt i, on <<chance_sum, hits_count>>.
SeriesStep(i, base_proc, st) ==
    LET hit_chance == MulQ(Min(One, base_proc * i), One - st[1])
    IN  <<st[1] + hit_chance, st[2] + hit_chance * i>>

RECURSIVE Series(_, _, _, _)
\* The loop of base_to_mean over attempts lo..hi, in order; the range is
\* halved so that the evaluation depth stays logarithmic.
Series(lo, hi, base_proc, st) ==
    IF lo > hi THEN st
    ELSE IF lo = hi THEN SeriesStep(lo, base_proc, st)
    ELSE LET mid == (lo + hi) \div 2
             left == Series(lo, mid, base_proc, st)
         IN  \* The test evaluates the first half before the second starts.
             IF left[2] >= 0 THEN Series(mid + 1, hi, base_proc, left) ELSE left

\* int(1 / base_proc): the number of attempts cut off, not rounded up.
FloorInv(base_proc) == One \div base_proc

\* int(ceil(1 / base_proc)) for base_proc > 0.
CeilInv(base_proc) == (One + base_proc - 1) \div base_proc

base_to_mean(base_proc) ==
    IF ~(0 <= base_proc /\ base_proc <= One) THEN InvalidProbability
    ELSE IF 2 * base_proc >= One THEN Ok(DivQ(One, 2 * One - base_proc))
    ELSE IF base_proc = 0 THEN Raise("ZeroDivisionError")
    ELSE Ok(DivQ(One, Series(2, CeilInv(base_proc), base_proc, <<base_proc, base_proc>>)[2]))

RECURSIVE BisectLoose(_, _, _, _)
\* The while loop of mean_to_base stopping at ten times the tolerance.
BisectLoose(lower, upper, mean_proc, epsilon) ==
    LET midpoint == (lower + upper) \div 2
        midvalue == base_to_mean(midpoint)
    IN  IF midvalue.kind # "ok" THEN midvalue
        ELSE IF Abs(midvalue.val - mean_proc) < 10 * epsilon THEN Ok(midpoint)
        ELSE IF midvalue.val < mean_proc
             THEN IF midpoint = lower THEN Raise("Hang")
                  ELSE BisectLoose(midpoint, upper, mean_proc, epsilon)
             ELSE IF midpoint = upper THEN Raise("Hang")
                  ELSE BisectLoose(lower, midpoint, mean_proc, epsilon)

RECURSIVE Bisect(_, _, _, _)
\* The while loop of mean_to_base.  A midpoint that no longer moves and
\* still misses the tolerance is the loop running forever ("Hang").
Bisect(lower, upper, mean_proc, epsilon) ==
    LET midpoint == (lower + upper) \div 2
        midvalue == base_to_mean(midpoint)
    IN  IF midvalue.kind # "ok" THEN midvalue
        ELSE IF Abs(midvalue.val - mean_proc) < epsilon THEN Ok(midpoint)
        ELSE IF midvalue.val < mean_proc
             THEN IF midpoint = lower THEN Raise("Hang")
                  ELSE Bisect(midpoint, upper, mean_proc, epsilon)
             ELSE IF midpoint = upper THEN Raise("Hang")
                  ELSE Bisect(lower, midpoint, mean_proc, epsilon)

\* mean_to_base without the test of mean_proc against [0, 1].
MeanToBaseUnchecked(mean, eps) ==
    IF mean <= 0 THEN Raise("ZeroDivisionError")
    ELSE IF 3 * mean >= 2 * One THEN Ok(2 * One - DivQ(One, mean))
    ELSE Bisect(0, mean, mean, eps)

mean_to_base(mean_proc, epsilon) ==
    IF ~(0 <= mean_proc /\ mean_proc <= One) THEN InvalidProbability
    ELSE IF 3 * mean_proc >= 2 * One THEN Ok(2 * One - DivQ(One, mean_proc))
    ELSE Bisect(0, mean_proc, mean_proc, epsilon)

\* ------------------------------------------------------ ChainProofRHG

\* round_places = -int(ceil(log10(epsilon))) for 0 < epsilon <= 1: the
\* largest n with 10^-n >= epsilon.
round_places(epsilon) ==
    CHOOSE n \in 0..(OneDigits) :
        /\ 10^(OneDigits - n) >= epsilon
        /\ (n = OneDigits \/ 10^(OneDigits - n - 1) < epsilon)

\* max_fails = int(ceil(1 / self._base_proc)).
max_fails(base) == CeilInv(base)

\* The arguments the calls below are made with.  0, a negative value and a
\* value above 1 are the invalid probabilities; epsilon 0 and 1e-3 are the
\* invalid precisions.
MeanInputs == {-(One \div 2), 0, One \div 2, One, One + One \div 2}
BaseInputs == {-(One \div 2), 0, One \div 5, One \div 2, One, One + One \div 2}
EpsInputs == {0, EPSILON, EpsilonMax, 10 * EpsilonMax}
NumberInputs == {One \div 2}

\* The valid precisions among the inputs.
LiveEps == {e \in EpsInputs : 0 < e /\ e <= EpsilonMax}

\* What ~a and a + k ask __init__ to construct from a stored mean p.
OpArgs(p) == {One - p} \cup {p + k : k \in NumberInputs}

\* The means the constructors store from the inputs, per precision.
SeedMeans(e) ==
    {Round(m, round_places(e)) : m \in {x \in MeanInputs : 0 < x /\ x <= One}}
    \cup {Round(base_to_mean(c).val, round_places(e)) :
            c \in {x \in BaseInputs : 0 < x /\ x <= One}}

\* The (mean, epsilon) arguments mean_to_base is called with in this model.
KnownCalls ==
    UNION {{<<x, e>> : x \in {y \in MeanInputs \cup
                                  UNION {OpArgs(p) : p \in SeedMeans(e)} :
                                0 < y /\ y <= One}} : e \in LiveEps}

\* mean_to_base on the known calls, computed once and kept with the state
\* so that no step computes a bisection again.
VARIABLE memo

\* mean_to_base, looked up when the call is a known one.
MeanToBase(mean, eps) ==
    IF <<mean, eps>> \in DOMAIN memo
    THEN memo[<<mean, eps>>]
    ELSE mean_to_base(mean, eps)

\* __init__ that takes the mean for the base probability.
InitBaseIsMean(mean, eps) ==
    IF eps > EpsilonMax THEN EpsilonTooLarge
    ELSE IF eps <= 0 THEN MathDomainError
    ELSE LET b == MeanToBase(mean, eps)
         IN  IF b.kind # "ok" THEN b
             ELSE Ok([epsilon |-> eps, fail_count |-> 0, last_count |-> 0,
                      lock |-> FALSE,
                      mean_proc |-> Round(mean, round_places(eps)),
                      base_proc |-> mean, procnow |-> mean])

\* __init__ without the test of epsilon against 1e-4.
InitUncheckedEpsilon(mean, eps) ==
    IF eps <= 0 THEN MathDomainError
    ELSE LET b == MeanToBase(mean, eps)
         IN  IF b.kind # "ok" THEN b
             ELSE Ok([epsilon |-> eps, fail_count |-> 0, last_count |-> 0,
                      lock |-> FALSE,
                      mean_proc |-> Round(mean, round_places(eps)),
                      base_proc |-> b.val, procnow |-> b.val])

\* ChainProofRHG(mean_proc, epsilon): the instance, or the exception.
__init__(mean, eps) ==
    IF eps > EpsilonMax THEN EpsilonTooLarge
    ELSE IF eps <= 0 THEN MathDomainError   \* log10 in round_places
    ELSE LET b == MeanToBase(mean, eps)
         IN  IF b.kind # "ok" THEN b
             ELSE Ok([epsilon |-> eps, fail_count |-> 0, last_count |-> 0,
                      lock |-> FALSE,
                      mean_proc |-> Round(mean, round_places(eps)),
                      base_proc |-> b.val, procnow |-> b.val])

\* ChainProofRHG.from_base_proc(base_proc, epsilon).
from_base_proc(base, eps) ==
    LET rhg == __init__(One, eps)
        m == base_to_mean(base)
    IN  IF rhg.kind # "ok" THEN rhg
        ELSE IF m.kind # "ok" THEN m
        ELSE Ok([rhg.val EXCEPT !.procnow = base, !.base_proc = base,
                     !.mean_proc = Round(m.val, round_places(eps))])

\* ------------------------------------------------------------- state

\* The slots of the one instance under observation (alive: it exists).
VARIABLES alive, epsilon, fail_count, last_count, lock, mean_proc,
          base_proc, procnow
\* What the last call was and did: its name, its draw ("hit", "miss" or
\* "none"), what it returned or yielded, the exception it raised, and the
\* instance an operator returned.
VARIABLES op, hit, ret, err, res
\* The streak sequence in progress, i.e. the values yielded since the last
\* construction, iter() or reset(): whether no draw was made since
\* construction or reset(), how the sequence began, fail_count when it
\* began, how many values it yielded, and whether they were 1, 2, 3, ...
VARIABLES fresh, run, start_fc, yield_count, seq_ok
\* The misses drawn since the most recent hit, construction or reset().
VARIABLE misses
\* The right-hand operand of the operators: a second instance, a plain
\* number or another object.
VARIABLE other
\* The arguments and the outcome of the last call of a conversion
\* function or of a constructor.
VARIABLES args, out
\* The outcomes of a chain of conversion calls, each one made on the
\* result of the one before.
VARIABLE trail
\* Callers that share the instance: where each one stands in its call
\* (procs), who holds the mutex the callers may agree on (mutex), and the
\* instance as it was when the callers started (begin).
VARIABLES procs, mutex, begin

slots == <<alive, epsilon, fail_count, last_count, lock, mean_proc,
           base_proc, procnow>>
call == <<op, hit, ret, err, res>>
sequence == <<fresh, run, start_fc, yield_count, seq_ok, misses>>
\* What no method of the instance writes.
apart == <<trail, procs, mutex, begin>>
outside == <<memo, other, args, out, apart>>
vars == <<slots, call, sequence, outside>>

\* Bound on fail_count, which single rolls can raise without limit.
MaxFailCount == 6

NoReturn == <<"none", 0>>

\* No conversion or constructor call was made.
NoArgs == <<0, 0>>
NoCall == RaiseWith("none", "none")

\* No instance: what a call that raised leaves behind.
NoInstance ==
    [alive |-> FALSE, epsilon |-> 0, fail_count |-> 0, last_count |-> 0,
     lock |-> FALSE, mean_proc |-> 0, base_proc |-> 0, procnow |-> 0]

\* No chain of conversion calls and no concurrent callers.
NoMutex == [used |-> FALSE, holder |-> 0]
Alone == trail = <<>> /\ procs = <<>> /\ mutex = NoMutex /\ begin = NoInstance

\* An operand of an operator: an instance (type "rhg"), a plain number
\* (type "number") or anything else (type "object").
Operand(t, n, i) == [type |-> t, num |-> n, inst |-> i]
\* No operand at hand.
NoOperand == Operand("none", 0, NoInstance)

\* The instance under observation, as a record.
Self ==
    [alive |-> alive, epsilon |-> epsilon, fail_count |-> fail_count,
     last_count |-> last_count, lock |-> lock, mean_proc |-> mean_proc,
     base_proc |-> base_proc, procnow |-> procnow]

\* The outcome r of a constructor call as an instance.
Instance(r) ==
    IF r.kind = "ok"
    THEN [alive |-> TRUE, epsilon |-> r.val.epsilon,
          fail_count |-> r.val.fail_count, last_count |-> r.val.last_count,
          lock |-> r.val.lock, mean_proc |-> r.val.mean_proc,
          base_proc |-> r.val.base_proc, procnow |-> r.val.procnow]
    ELSE NoInstance

\* The state after the constructor call c with outcome r: the instance,
\* or no instance and the exception.
Constructed(r, c) ==
    LET i == Instance(r)
    IN  /\ alive = i.alive
        /\ epsilon = i.epsilon
        /\ fail_count = i.fail_count
        /\ last_count = i.last_count
        /\ lock = i.lock
        /\ mean_proc = i.mean_proc
        /\ base_proc = i.base_proc
        /\ procnow = i.procnow
        /\ op = c /\ hit = "none" /\ ret = NoReturn
        /\ err = (IF r.kind = "ok" THEN "none" ELSE r.kind)
        /\ res = NoInstance
        /\ fresh = i.alive
        /\ run = (IF i.alive THEN "fresh" ELSE "none")
        /\ start_fc = 0 /\ yield_count = 0 /\ seq_ok = TRUE /\ misses = 0

Init ==
    /\ memo = [c \in KnownCalls |-> mean_to_base(c[1], c[2])]
    /\ other = NoOperand /\ args = NoArgs /\ out = NoCall
    /\ Alone
    /\ \/ \E m \in MeanInputs, e \in EpsInputs :
              Constructed(__init__(m, e), "new")
       \/ \E c \in BaseInputs, e \in EpsInputs :
              Constructed(from_base_proc(c, e), "from_base")

\* random() < p: the outcomes a draw against p can have.  random() lies
\* in [0, 1), so a miss needs p < 1 and a hit needs p > 0.
Draw(p) == {h \in BOOLEAN : (h => p > 0) /\ (~h => p < One)}

\* The hit branch of __bool__ with last_count one short.
RollHitOffByOne ==
    /\ last_count' = fail_count
    /\ fail_count' = 0
    /\ misses' = 0
    /\ UNCHANGED procnow

\* The hit branch of __bool__.
RollHit ==
    /\ last_count' = fail_count + 1
    /\ fail_count' = 0
    /\ misses' = 0
    /\ UNCHANGED procnow

\* The miss branch of __bool__ escalating the chance as __next__ does.
RollMissEscalates ==
    /\ fail_count < MaxFailCount
    /\ fail_count' = fail_count + 1
    /\ misses' = misses + 1
    /\ procnow' = Min(One, procnow + base_proc)
    /\ UNCHANGED last_count

\* The miss branch of __bool__.
RollMiss ==
    /\ fail_count < MaxFailCount
    /\ fail_count' = fail_count + 1
    /\ misses' = misses + 1
    /\ UNCHANGED <<last_count, procnow>>

\* bool(self), called as c ("bool", or "int" for int(bool(self))).
Roll(c) ==
    /\ alive
    /\ \E h \in Draw(procnow) :
         /\ IF h THEN RollHit ELSE RollMiss
         /\ hit' = (IF h THEN "hit" ELSE "miss")
         /\ ret' = <<c, IF h THEN 1 ELSE 0>>
    /\ op' = c /\ err' = "none" /\ res' = NoInstance
    /\ fresh' = FALSE /\ run' = "mixed"
    /\ UNCHANGED <<alive, epsilon, lock, mean_proc, base_proc>>
    /\ UNCHANGED <<start_fc, yield_count, seq_ok, outside>>

__bool__ == Roll("bool")

__int__ == Roll("int")

\* reset() that clears the counter and forgets the lock.
ResetKeepsLock ==
    /\ alive
    /\ fail_count' = 0
    /\ UNCHANGED lock
    /\ op' = "reset" /\ hit' = "none" /\ ret' = NoReturn /\ err' = "none"
    /\ res' = NoInstance
    /\ fresh' = TRUE /\ run' = "fresh" /\ start_fc' = 0
    /\ yield_count' = 0 /\ seq_ok' = TRUE /\ misses' = 0
    /\ UNCHANGED <<alive, epsilon, last_count, mean_proc, base_proc, procnow,
                   outside>>

reset ==
    /\ alive
    /\ fail_count' = 0
    /\ lock' = FALSE
    /\ op' = "reset" /\ hit' = "none" /\ ret' = NoReturn /\ err' = "none"
    /\ res' = NoInstance
    /\ fresh' = TRUE /\ run' = "fresh" /\ start_fc' = 0
    /\ yield_count' = 0 /\ seq_ok' = TRUE /\ misses' = 0
    /\ UNCHANGED <<alive, epsilon, last_count, mean_proc, base_proc, procnow,
                   outside>>

\* __iter__ that returns self without clearing the lock.
IterKeepsLock ==
    /\ alive
    /\ UNCHANGED lock
    /\ op' = "iter" /\ hit' = "none" /\ ret' = NoReturn /\ err' = "none"
    /\ res' = NoInstance
    /\ run' = (IF fresh THEN "fresh" ELSE "resumed")
    /\ start_fc' = fail_count
    /\ yield_count' = 0 /\ seq_ok' = TRUE
    /\ UNCHANGED <<alive, epsilon, fail_count, last_count, mean_proc,
                   base_proc, procnow, fresh, misses, outside>>

__iter__ ==
    /\ alive
    /\ lock' = FALSE
    /\ op' = "iter" /\ hit' = "none" /\ ret' = NoReturn /\ err' = "none"
    /\ res' = NoInstance
    /\ run' = (IF fresh THEN "fresh" ELSE "resumed")
    /\ start_fc' = fail_count
    /\ yield_count' = 0 /\ seq_ok' = TRUE
    /\ UNCHANGED <<alive, epsilon, fail_count, last_count, mean_proc,
                   base_proc, procnow, fresh, misses, outside>>

\* __next__ on an exhausted instance: StopIteration at once.
NextLocked ==
    /\ hit' = "none" /\ ret' = <<"StopIteration", 0>>
    /\ UNCHANGED <<fail_count, last_count, lock, procnow>>
    /\ UNCHANGED sequence

\* The hit branch of __next__ leaving the escalated chance in place.
NextHitKeepsChance ==
    /\ last_count' = fail_count + 1
    /\ fail_count' = 0
    /\ UNCHANGED procnow
    /\ lock' = TRUE
    /\ hit' = "hit" /\ ret' = <<"StopIteration", 0>>
    /\ fresh' = FALSE /\ misses' = 0
    /\ UNCHANGED <<run, start_fc, yield_count, seq_ok>>

\* The hit branch of __next__: the sequence ends, nothing is yielded.
NextHit ==
    /\ last_count' = fail_count + 1
    /\ fail_count' = 0
    /\ procnow' = base_proc
    /\ lock' = TRUE
    /\ hit' = "hit" /\ ret' = <<"StopIteration", 0>>
    /\ fresh' = FALSE /\ misses' = 0
    /\ UNCHANGED <<run, start_fc, yield_count, seq_ok>>

\* The miss branch of __next__ without the escalation.
NextMissNoEscalation ==
    /\ fail_count < MaxFailCount
    /\ UNCHANGED procnow
    /\ fail_count' = fail_count + 1
    /\ hit' = "miss" /\ ret' = <<"yield", fail_count + 1>>
    /\ fresh' = FALSE /\ misses' = misses + 1
    /\ yield_count' = yield_count + 1
    /\ seq_ok' = (seq_ok /\ fail_count + 1 = yield_count + 1)
    /\ UNCHANGED <<last_count, lock, run, start_fc>>

\* The miss branch of __next__ yielding the count before the increment.
NextMissYieldsOld ==
    /\ fail_count < MaxFailCount
    /\ procnow' = Min(One, procnow + base_proc)
    /\ fail_count' = fail_count + 1
    /\ hit' = "miss" /\ ret' = <<"yield", fail_count>>
    /\ fresh' = FALSE /\ misses' = misses + 1
    /\ yield_count' = yield_count + 1
    /\ seq_ok' = (seq_ok /\ fail_count = yield_count + 1)
    /\ UNCHANGED <<last_count, lock, run, start_fc>>

\* The miss branch of __next__: escalate, count, yield the new count.
NextMiss ==
    /\ fail_count < MaxFailCount
    /\ procnow' = Min(One, procnow + base_proc)
    /\ fail_count' = fail_count + 1
    /\ hit' = "miss" /\ ret' = <<"yield", fail_count + 1>>
    /\ fresh' = FALSE /\ misses' = misses + 1
    /\ yield_count' = yield_count + 1
    /\ seq_ok' = (seq_ok /\ fail_count + 1 = yield_count + 1)
    /\ UNCHANGED <<last_count, lock, run, start_fc>>

__next__ ==
    /\ alive
    /\ op' = "next" /\ err' = "none" /\ res' = NoInstance
    /\ IF lock
       THEN NextLocked
       ELSE \E h \in Draw(procnow) : IF h THEN NextHit ELSE NextMiss
    /\ UNCHANGED <<alive, epsilon, mean_proc, base_proc, outside>>

\* An operator that clears the streak of self on its way.
ReturnedResetsSelf(r, c) ==
    /\ res' = Instance(r)
    /\ op' = c /\ hit' = "none" /\ ret' = NoReturn
    /\ err' = (IF r.kind = "ok" THEN "none" ELSE r.kind)
    /\ fail_count' = 0 /\ procnow' = base_proc
    /\ UNCHANGED <<alive, epsilon, last_count, lock, mean_proc, base_proc,
                   sequence, outside>>

\* An operator hands its result mean to __init__ and returns the new
\* instance (res); self is not touched.  When __init__ raises there is
\* no result.
Returned(r, c) ==
    /\ res' = Instance(r)
    /\ op' = c /\ hit' = "none" /\ ret' = NoReturn
    /\ err' = (IF r.kind = "ok" THEN "none" ELSE r.kind)
    /\ UNCHANGED <<slots, sequence, outside>>

\* ~self computed from base_proc instead of mean_proc.
InvertFromBase ==
    /\ alive
    /\ Returned(__init__(One - base_proc, epsilon), "invert")

\* ~self
__invert__ ==
    /\ alive
    /\ Returned(__init__(One - mean_proc, epsilon), "invert")

\* self + other for a plain number other (_math_op with operator.add).
__add__ ==
    /\ alive
    /\ \E number \in NumberInputs :
         Returned(__init__(mean_proc + number, epsilon), "add")

Next ==
    \/ __bool__
    \/ __int__
    \/ reset
    \/ __iter__
    \/ __next__
    \/ __invert__
    \/ __add__

Spec == Init /\ [][Next]_vars

\* ------------------------------------ conversions and constructors

\* The probability and precision arguments the conversion functions and
\* the constructors are called with: both ends of [0, 1], values inside on
\* both sides of the closed forms, values outside; precisions 0, the
\* default, the largest one accepted and one above it.
ProbInputs == MeanInputs \cup BaseInputs \cup {One \div 4, 3 * (One \div 4)}
PrecisionInputs == EpsInputs \cup {10 * EPSILON}

\* The calls of mean_to_base that run its loop.
ConvCalls == {c \in ProbInputs \X PrecisionInputs : 0 < c[1] /\ c[1] <= One}

\* The state a constructor call c with outcome r leaves: Constructed, as
\* the effect of a step.
Built(r, c) ==
    LET i == Instance(r)
    IN  /\ alive' = i.alive
        /\ epsilon' = i.epsilon
        /\ fail_count' = i.fail_count
        /\ last_count' = i.last_count
        /\ lock' = i.lock
        /\ mean_proc' = i.mean_proc
        /\ base_proc' = i.base_proc
        /\ procnow' = i.procnow
        /\ op' = c /\ hit' = "none" /\ ret' = NoReturn
        /\ err' = (IF r.kind = "ok" THEN "none" ELSE r.kind)
        /\ res' = NoInstance
        /\ fresh' = i.alive
        /\ run' = (IF i.alive THEN "fresh" ELSE "none")
        /\ start_fc' = 0 /\ yield_count' = 0 /\ seq_ok' = TRUE /\ misses' = 0
        /\ out' = [r EXCEPT !.val = 0]

\* The outcome r of the conversion function c: no instance is involved.
Converted(r, c) ==
    /\ out' = r
    /\ op' = c /\ hit' = "none" /\ ret' = NoReturn
    /\ err' = (IF r.kind = "ok" THEN "none" ELSE r.kind)
    /\ res' = NoInstance
    /\ UNCHANGED <<slots, sequence>>

\* Before the call: the arguments are chosen, nothing exists yet.
InitConv ==
    /\ memo = [c \in ConvCalls |-> mean_to_base(c[1], c[2])]
    /\ other = NoOperand
    /\ args \in ProbInputs \X PrecisionInputs
    /\ out = NoCall
    /\ Alone
    /\ Constructed(NoCall, "none")

\* ChainProofRHG(mean_proc, epsilon)
Construct ==
    /\ op = "none"
    /\ Built(__init__(args[1], args[2]), "new")
    /\ UNCHANGED <<memo, other, args, apart>>

\* ChainProofRHG.from_base_proc(base_proc, epsilon)
ConstructFromBase ==
    /\ op = "none"
    /\ Built(from_base_proc(args[1], args[2]), "from_base")
    /\ UNCHANGED <<memo, other, args, apart>>

\* base_to_mean(base_proc)
CallBaseToMean ==
    /\ op = "none"
    /\ Converted(base_to_mean(args[1]), "base_to_mean")
    /\ UNCHANGED <<memo, other, args, apart>>

\* mean_to_base(mean_proc, epsilon)
CallMeanToBase ==
    /\ op = "none"
    /\ Converted(MeanToBase(args[1], args[2]), "mean_to_base")
    /\ UNCHANGED <<memo, other, args, apart>>

NextConv ==
    \/ Construct
    \/ ConstructFromBase
    \/ CallBaseToMean
    \/ CallMeanToBase

SpecConv == InitConv /\ [][NextConv]_vars

\* ------------------------------------------------------- operators

\* float l * r for either sign.
FloatMul(l, r) ==
    IF (l < 0) # (r < 0) THEN -MulQ(Abs(l), Abs(r)) ELSE MulQ(Abs(l), Abs(r))

\* The largest quotient this model computes; the call is left out beyond.
MaxQuotient == 20

\* float l / r.
TrueDiv(l, r) ==
    IF r = 0 THEN Raise("ZeroDivisionError")
    ELSE IF Abs(l) \div Abs(r) >= MaxQuotient THEN Raise("Unmodelled")
    ELSE IF (l < 0) # (r < 0) THEN Ok(-DivQ(Abs(l), Abs(r)))
    ELSE Ok(DivQ(Abs(l), Abs(r)))

RECURSIVE SqrtBetween(_, _, _)
\* The largest s in lo..hi whose square is at most x: float x ** 0.5.
SqrtBetween(lo, hi, x) ==
    IF lo >= hi THEN lo
    ELSE LET mid == (lo + hi + 1) \div 2
         IN  IF MulQ(mid, mid) <= x THEN SqrtBetween(mid, hi, x)
             ELSE SqrtBetween(lo, mid - 1, x)

\* float l ** r, for the exponents 0, 0.5, 1 and 2 and the bases 0 and 1;
\* the call is left out for any other.
Pow(l, r) ==
    IF r = 0 THEN Ok(One)
    ELSE IF r = One THEN Ok(l)
    ELSE IF l = One THEN Ok(One)
    ELSE IF l = 0 /\ r > 0 THEN Ok(0)
    ELSE IF r = 2 * One THEN Ok(FloatMul(l, l))
    ELSE IF 2 * r = One /\ l >= 0 THEN Ok(SqrtBetween(0, 3 * One, l))
    ELSE Raise("Unmodelled")

\* The op of __or__ without the product.
OrMeanSum(l, r) == l + r

\* lambda l, r: l + r - l * r
OrMean(l, r) == l + r - FloatMul(l, r)
\* lambda l, r: l + r - 2 * l * r
XorMean(l, r) == l + r - FloatMul(FloatMul(2 * One, l), r)

ArithmeticOps == {"add", "sub", "mul", "truediv", "pow"}
LogicalOps == {"and", "or", "xor"}

\* The op of the partialmethod c applied to the floats l and r.
Apply(c, l, r) ==
    CASE c = "add" -> Ok(l + r)
      [] c = "sub" -> Ok(l - r)
      [] c = "mul" -> Ok(FloatMul(l, r))
      [] c = "truediv" -> TrueDiv(l, r)
      [] c = "pow" -> Pow(l, r)
      [] c = "and" -> Ok(FloatMul(l, r))
      [] c = "or" -> Ok(OrMean(l, r))
      [] c = "xor" -> Ok(XorMean(l, r))

\* The smallest mean above 0 this model constructs a generator for: the
\* series of base_to_mean grows as 1 / mean.
MeanFloor == One \div 10

\* self.__class__(v, eps) for the outcome v of the op: the exception of
\* the op, or what __init__ does with its value.
Made(v, eps) ==
    IF v.kind # "ok" THEN v
    ELSE IF 0 < v.val /\ v.val < MeanFloor THEN Raise("Unmodelled")
    ELSE __init__(v.val, eps)

\* The float an operand stands for in an op.
OperandValue(o) == IF o.type = "rhg" THEN o.inst.mean_proc ELSE o.num

\* The epsilon an operator hands to __init__.
ResultEpsilon(x, o) ==
    IF o.type = "rhg" THEN Max(x.epsilon, o.inst.epsilon) ELSE x.epsilon

\* x._math_op(o, op): x op o.  NotImplemented ends in a TypeError.
MathOp(c, x, o) ==
    IF o.type \in {"rhg", "number"}
    THEN Made(Apply(c, x.mean_proc, OperandValue(o)), ResultEpsilon(x, o))
    ELSE RaiseWith("TypeError", "unsupported operand")

\* x._rev_math_op(o, op) that leaves the left operand out.
RevMathOpDropsOperand(c, x, o) ==
    IF o.type = "number"
    THEN Made(Ok(x.mean_proc), x.epsilon)
    ELSE RaiseWith("TypeError", "unsupported operand")

\* x._rev_math_op(o, op): o op x, for a left operand that is no instance.
RevMathOp(c, x, o) ==
    IF o.type = "number"
    THEN Made(Apply(c, o.num, x.mean_proc), x.epsilon)
    ELSE RaiseWith("TypeError", "unsupported operand")

\* The test of _logic_op on its operand.
LogicOperand(o) ==
    o.type = "rhg" \/ (o.type = "number" /\ 0 <= o.num /\ o.num <= One)

\* x._logic_op(o, op): x op o and o op x alike.
LogicOp(c, x, o) ==
    IF LogicOperand(o)
    THEN Made(Apply(c, x.mean_proc, OperandValue(o)), ResultEpsilon(x, o))
    ELSE RaiseWith("TypeError", "incompatible operand")

\* x.__invert__()
Invert(x) == Made(Ok(One - x.mean_proc), x.epsilon)

\* x == o that compares the means alone.
EqualMeans(x, o) ==
    IF o.type = "rhg" THEN x.mean_proc = o.inst.mean_proc
    ELSE IF o.type = "number" THEN x.mean_proc = o.num
    ELSE FALSE

\* x._cmp_op(o, operator.eq): x == o.  NotImplemented from both sides
\* ends in the comparison of identities, which is False.
Equal(x, o) ==
    IF o.type = "rhg"
    THEN <<x.mean_proc, round_places(x.epsilon)>>
           = <<o.inst.mean_proc, round_places(o.inst.epsilon)>>
    ELSE IF o.type = "number" THEN x.mean_proc = o.num
    ELSE FALSE

\* next(i) on the instance record i with the draw h.
Stepped(i, h) ==
    IF i.lock THEN i
    ELSE IF h
    THEN [i EXCEPT !.last_count = i.fail_count + 1, !.fail_count = 0,
                   !.procnow = i.base_proc, !.lock = TRUE]
    ELSE [i EXCEPT !.procnow = Min(One, i.procnow + i.base_proc),
                   !.fail_count = i.fail_count + 1]

\* The generators the operators are applied to, as the arguments of
\* their construction: the means of the self-test (0.1, 0.2), a mean under
\* four precisions, two of them (1e-6, 5e-7) with the same round_places, the
\* certain hit, and means that are multiples of 1/16, whose products lie
\* halfway between two multiples of 1e-4.
GenInputs ==
    {<<One \div 10, EPSILON>>, <<One \div 5, EPSILON>>,
     <<One \div 2, EPSILON>>, <<One, EPSILON>>,
     <<One \div 2, 10 * EPSILON>>, <<One \div 2, EPSILON \div 2>>,
     <<One \div 4, EpsilonMax>>, <<5 * (One \div 16), EpsilonMax>>,
     <<One \div 2, EpsilonMax>>, <<9 * (One \div 16), EpsilonMax>>}

\* The plain numbers the operators are applied to: inside [0, 1], its
\* ends, and outside it on both sides.
NumberOperands ==
    {-(One \div 2), 0, One \div 2, One, One + One \div 2, 2 * One, 5 * One}

\* The values of the floats the ops return on l and r, either way round.
OpValues(l, r) ==
    {v.val : v \in {w \in {Apply(c, l, r) : c \in ArithmeticOps \cup LogicalOps}
                          \cup {Apply(c, r, l) : c \in ArithmeticOps} :
                      w.kind = "ok"}}

\* The floats a + b - a * b and a + b - 2 * a * b hand to __init__ step
\* by step, for generators of means a and b and precision e.
StepwiseValues(a, b, e) ==
    LET places == round_places(e)
        sum == Round(a + b, places)
        product == Round(FloatMul(a, b), places)
        twice == Round(FloatMul(2 * One, a), places)
        twice_product == Round(FloatMul(twice, b), places)
    IN  {FloatMul(2 * One, a), FloatMul(twice, b),
         sum - product, sum - twice_product}

\* The operands at hand, as what they are made from: every generator,
\* every number, and an object that is neither.
OperandSeeds ==
    {<<"rhg", g[1], g[2]>> : g \in GenInputs}
    \cup {<<"number", k, 0>> : k \in NumberOperands}
    \cup {<<"object", 0, 0>>}

\* The (mean, epsilon) arguments mean_to_base runs its loop on when the
\* generator made from g and the operand made from s are constructed and
\* the operators are applied to them, alone and step by step.
PairCalls(g, s) ==
    LET p == Round(g[1], round_places(g[2]))
        r == IF s[1] = "rhg" THEN Round(s[2], round_places(s[3])) ELSE s[2]
        e == IF s[1] = "rhg" THEN Max(g[2], s[3]) ELSE g[2]
    IN  {c \in {<<g[1], g[2]>>, <<One - p, g[2]>>}
               \cup (IF s[1] = "rhg"
                     THEN {<<s[2], s[3]>>}
                          \cup {<<v, e>> : v \in StepwiseValues(p, r, e)}
                     ELSE {})
               \cup {<<v, e>> : v \in OpValues(p, r)} :
           MeanFloor <= c[1] /\ c[1] <= One /\ 3 * c[1] < 2 * One}

\* The operand made from s.
SeedOperand(s) ==
    IF s[1] = "rhg"
    THEN Operand("rhg", 0, Instance(__init__(s[2], s[3])))
    ELSE Operand(s[1], s[2], NoInstance)

InitAlg ==
    \E g \in GenInputs, s \in OperandSeeds :
        /\ memo = [c \in PairCalls(g, s) |-> mean_to_base(c[1], c[2])]
        /\ Constructed(__init__(g[1], g[2]), "new")
        /\ other = SeedOperand(s)
        /\ args = NoArgs /\ out = NoCall
        /\ Alone

\* Bound on the misses the right-hand operand is stepped through.
OtherMaxFail == 1

\* next(other): one step of a streak iteration on the right-hand operand.
OtherNext ==
    /\ other.type = "rhg" /\ ~other.inst.lock
    /\ other.inst.fail_count < OtherMaxFail
    /\ \E h \in Draw(other.inst.procnow) :
         other' = [other EXCEPT !.inst = Stepped(other.inst, h)]
    /\ op' = "other_next" /\ hit' = "none" /\ ret' = NoReturn
    /\ err' = "none" /\ res' = NoInstance
    /\ UNCHANGED <<slots, sequence, memo, args, out, apart>>

\* The name a reflected operator is recorded under.
Reflected(c) ==
    CASE c = "add" -> "radd"
      [] c = "sub" -> "rsub"
      [] c = "mul" -> "rmul"
      [] c = "truediv" -> "rtruediv"
      [] c = "pow" -> "rpow"

\* self c other: __add__, __sub__, __mul__, __truediv__, __pow__.
_math_op(c) ==
    /\ alive /\ other.type # "none"
    /\ LET r == MathOp(c, Self, other)
       IN  r.kind # "Unmodelled" /\ Returned(r, c)

\* other c self, which Python hands to self when other is no instance:
\* __radd__, __rsub__, __rmul__, __rtruediv__, __rpow__.
_rev_math_op(c) ==
    /\ alive /\ other.type \notin {"none", "rhg"}
    /\ LET r == RevMathOp(c, Self, other)
       IN  r.kind # "Unmodelled" /\ Returned(r, Reflected(c))

\* self c other and other c self: __and__, __or__, __xor__ and their
\* reflected forms.
_logic_op(c) ==
    /\ alive /\ other.type # "none"
    /\ LET r == LogicOp(c, Self, other)
       IN  r.kind # "Unmodelled" /\ Returned(r, c)

\* self == other
__eq__ ==
    /\ alive /\ other.type # "none"
    /\ op' = "eq" /\ hit' = "none" /\ err' = "none" /\ res' = NoInstance
    /\ ret' = <<"bool", IF Equal(Self, other) THEN 1 ELSE 0>>
    /\ UNCHANGED <<slots, sequence, outside>>

NextAlg ==
    \/ __next__
    \/ OtherNext
    \/ \E c \in ArithmeticOps : _math_op(c)
    \/ \E c \in ArithmeticOps : _rev_math_op(c)
    \/ \E c \in LogicalOps : _logic_op(c)
    \/ __invert__
    \/ __eq__

SpecAlg == InitAlg /\ [][NextAlg]_vars

\* ------------------------------------------------------- round trips

\* The base probabilities and means the round trips start from: 0.05,
\* 0.06, ..., 1.00, on both sides of the closed forms and with 1/2, 1/4,
\* 1/5 and 1/10 among them.
TripInputs == {k * (One \div 100) : k \in 5..100}
\* The precisions of the round trips: the default and the largest one.
TripEps == {EPSILON, EpsilonMax}

\* Before the first call: the arguments are chosen, nothing exists yet.
InitTrip ==
    /\ memo = <<>>
    /\ other = NoOperand
    /\ args \in TripInputs \X TripEps
    /\ out = NoCall
    /\ trail = <<>> /\ procs = <<>> /\ mutex = NoMutex /\ begin = NoInstance
    /\ Constructed(NoCall, "none")

\* The conversion call c with outcome r, made after the calls of the trail.
Chained(r, c) ==
    /\ trail' = Append(trail, r)
    /\ Converted(r, c)
    /\ UNCHANGED <<memo, other, args, procs, mutex, begin>>

\* base_to_mean(c) on the base probability chosen.
TripToMean ==
    /\ op = "none"
    /\ Chained(base_to_mean(args[1]), "base_to_mean")

\* mean_to_base(base_to_mean(c), epsilon)
TripToBase ==
    /\ Len(trail) = 1 /\ trail[1].kind = "ok"
    /\ Chained(mean_to_base(trail[1].val, args[2]), "mean_to_base")

\* base_to_mean(mean_to_base(base_to_mean(c), epsilon))
TripBack ==
    /\ Len(trail) = 2 /\ trail[2].kind = "ok"
    /\ Chained(base_to_mean(trail[2].val), "base_to_mean")

\* ChainProofRHG(p, epsilon) on the mean chosen; means below MeanFloor are
\* left out.
TripConstruct ==
    /\ op = "none" /\ MeanFloor <= args[1]
    /\ Built(__init__(args[1], args[2]), "new")
    /\ UNCHANGED <<memo, other, args, apart>>

\* self.base_to_mean()
SelfBaseToMean ==
    /\ alive /\ op = "new"
    /\ Converted(base_to_mean(base_proc), "self.base_to_mean")
    /\ UNCHANGED <<memo, other, args, apart>>

\* ChainProofRHG.from_base_proc(c, epsilon) on the base probability
\* chosen, for the streak iteration that __next__ then runs on it.
TripFromBase ==
    /\ op = "none"
    /\ Built(from_base_proc(args[1], args[2]), "from_base")
    /\ UNCHANGED <<memo, other, args, apart>>

\* next(self) on the generator made by from_base_proc.
TripNext ==
    /\ op \in {"from_base", "next"}
    /\ __next__

NextTrip ==
    \/ TripToMean
    \/ TripToBase
    \/ TripBack
    \/ TripConstruct
    \/ SelfBaseToMean
    \/ TripFromBase
    \/ TripNext

SpecTrip == InitTrip /\ [][NextTrip]_vars

\* ----------------------------------------------------------- threads

\* Two threads, each making one call on the instance they share.  A
\* thread can be switched out between any two attribute accesses, so a
\* step is one read or one write of a slot; tmp is what the thread has
\* read and not yet written back, draw the outcome of its random().  With
\* a mutex in use a thread holds it for the whole call.
Threads == {1, 2}
ThreadCalls == {"bool", "next"}

\* bool(i) on the instance record i with the draw h.
Rolled(i, h) ==
    IF h
    THEN [i EXCEPT !.last_count = i.fail_count + 1, !.fail_count = 0]
    ELSE [i EXCEPT !.fail_count = i.fail_count + 1]

\* The draws of the streak steps made on ChainProofRHG(0.5) before the
\* threads start: none, one and two misses, and a hit that exhausts it.
ThreadStarts == {<<>>, <<FALSE>>, <<FALSE, FALSE>>, <<TRUE>>}

RECURSIVE Started(_, _)
\* The instance i after streak steps with the draws d.
Started(i, d) ==
    IF d = <<>> THEN i ELSE Started(Stepped(i, Head(d)), Tail(d))

\* Where a call of kind k starts and where it ends.
FirstStep(k) == IF k = "next" THEN "test_lock" ELSE "draw"
LastStep == IF mutex.used THEN "release" ELSE "done"

InitThreads ==
    \E d \in ThreadStarts, k \in [Threads -> ThreadCalls], sync \in BOOLEAN :
        /\ memo = <<>>
        /\ other = NoOperand /\ args = NoArgs /\ out = NoCall
        /\ trail = <<>>
        /\ begin = Started(Instance(__init__(One \div 2, EPSILON)), d)
        /\ Constructed(Ok(begin), "new")
        /\ mutex = [used |-> sync, holder |-> 0]
        /\ procs = [t \in Threads |->
                      [pc |-> IF sync THEN "acquire" ELSE FirstStep(k[t]),
                       kind |-> k[t], tmp |-> 0, draw |-> FALSE]]

\* What no step of a thread changes.
settled == <<alive, epsilon, mean_proc, base_proc, call, sequence,
             memo, other, args, out, trail, begin>>

\* Thread t goes on to step pc, holding v in tmp.
Goes(t, pc, v) == procs' = [procs EXCEPT ![t].pc = pc, ![t].tmp = v]

\* Taking the mutex without waiting for it to be free.
AcquireNoWait(t) ==
    /\ procs[t].pc = "acquire"
    /\ mutex' = [mutex EXCEPT !.holder = t]
    /\ Goes(t, FirstStep(procs[t].kind), 0)
    /\ UNCHANGED <<fail_count, last_count, lock, procnow, settled>>

\* with mutex: the thread waits until no other thread holds it.
Acquire(t) ==
    /\ procs[t].pc = "acquire" /\ mutex.holder = 0
    /\ mutex' = [mutex EXCEPT !.holder = t]
    /\ Goes(t, FirstStep(procs[t].kind), 0)
    /\ UNCHANGED <<fail_count, last_count, lock, procnow, settled>>

\* __next__: if self._lock: raise StopIteration
TestLock(t) ==
    /\ procs[t].pc = "test_lock"
    /\ Goes(t, IF lock THEN LastStep ELSE "draw", 0)
    /\ UNCHANGED <<fail_count, last_count, lock, procnow, mutex, settled>>

\* hit = random() < self._procnow
Draws(t) ==
    /\ procs[t].pc = "draw"
    /\ \E h \in Draw(procnow) :
         procs' = [procs EXCEPT
                     ![t].draw = h,
                     ![t].pc = IF h THEN "hit_read"
                               ELSE IF procs[t].kind = "next"
                                    THEN "miss_chance_read"
                                    ELSE "miss_read"]
    /\ UNCHANGED <<fail_count, last_count, lock, procnow, mutex, settled>>

\* self._last_count = self._fail_count + 1: the read
HitRead(t) ==
    /\ procs[t].pc = "hit_read"
    /\ Goes(t, "hit_last", fail_count)
    /\ UNCHANGED <<fail_count, last_count, lock, procnow, mutex, settled>>

\* self._last_count = self._fail_count + 1: the write
HitLast(t) ==
    /\ procs[t].pc = "hit_last"
    /\ last_count' = procs[t].tmp + 1
    /\ Goes(t, "hit_zero", 0)
    /\ UNCHANGED <<fail_count, lock, procnow, mutex, settled>>

\* self._fail_count = 0
HitZero(t) ==
    /\ procs[t].pc = "hit_zero"
    /\ fail_count' = 0
    /\ Goes(t, IF procs[t].kind = "next" THEN "hit_chance" ELSE LastStep, 0)
    /\ UNCHANGED <<last_count, lock, procnow, mutex, settled>>

\* __next__: self._procnow = self._base_proc
HitChance(t) ==
    /\ procs[t].pc = "hit_chance"
    /\ procnow' = base_proc
    /\ Goes(t, "hit_lock", 0)
    /\ UNCHANGED <<fail_count, last_count, lock, mutex, settled>>

\* __next__: self._lock = True
HitLock(t) ==
    /\ procs[t].pc = "hit_lock"
    /\ lock' = TRUE
    /\ Goes(t, LastStep, 0)
    /\ UNCHANGED <<fail_count, last_count, procnow, mutex, settled>>

\* __next__: self._procnow = min(1.0, self._procnow + self._base_proc):
\* the read
MissChanceRead(t) ==
    /\ procs[t].pc = "miss_chance_read"
    /\ Goes(t, "miss_chance_write", Min(One, procnow + base_proc))
    /\ UNCHANGED <<fail_count, last_count, lock, procnow, mutex, settled>>

\* __next__: self._procnow = min(1.0, self._procnow + self._base_proc):
\* the write
MissChanceWrite(t) ==
    /\ procs[t].pc = "miss_chance_write"
    /\ procnow' = procs[t].tmp
    /\ Goes(t, "miss_read", 0)
    /\ UNCHANGED <<fail_count, last_count, lock, mutex, settled>>

\* self._fail_count += 1: the read
MissRead(t) ==
    /\ procs[t].pc = "miss_read"
    /\ Goes(t, "miss_write", fail_count)
    /\ UNCHANGED <<fail_count, last_count, lock, procnow, mutex, settled>>

\* self._fail_count += 1: the write
MissWrite(t) ==
    /\ procs[t].pc = "miss_write"
    /\ fail_count' = procs[t].tmp + 1
    /\ Goes(t, LastStep, 0)
    /\ UNCHANGED <<last_count, lock, procnow, mutex, settled>>

\* The end of the with block.
Release(t) ==
    /\ procs[t].pc = "release"
    /\ mutex' = [mutex EXCEPT !.holder = 0]
    /\ Goes(t, "done", 0)
    /\ UNCHANGED <<fail_count, last_count, lock, procnow, settled>>

NextThreads ==
    \E t \in Threads :
        \/ Acquire(t)
        \/ TestLock(t)
        \/ Draws(t)
        \/ HitRead(t)
        \/ HitLast(t)
        \/ HitZero(t)
        \/ HitChance(t)
        \/ HitLock(t)
        \/ MissChanceRead(t)
        \/ MissChanceWrite(t)
        \/ MissRead(t)
        \/ MissWrite(t)
        \/ Release(t)

SpecThreads == InitThreads /\ [][NextThreads]_vars

\* ------------------------------------------------------------- linky

\* Linky.respond (src/cogs/linky.py), the command that gates a rare image
\* with the class attribute linky_rhg = ChainProof(1 / 90).  The event loop
\* runs a coroutine from one await to the next without interruption, so an
\* invocation is two steps: from its start to its await of send_message,
\* and the return of that await.

\* The base_proc of ChainProof(1 / 90): mean_to_base(1 / 90) = 0.00019251...
LinkyBase == 19251

\* Linky.linky_rhg as constructed when the class body runs.
linky_rhg ==
    [alive |-> TRUE, epsilon |-> EPSILON, fail_count |-> 0, last_count |-> 0,
     lock |-> FALSE, mean_proc |-> Round(One \div 90, round_places(EPSILON)),
     base_proc |-> LinkyBase, procnow |-> LinkyBase]

\* The invocations that can be pending at a time.
Invocations == {1, 2, 3}
\* What the query of an invocation is: 'state laws' or anything else.
Queries == {"laws", "other"}

\* An invocation: where it stands, its query, the rolls it has made (tmp)
\* and whether it drew the rare image (draw).
InitLinky ==
    /\ memo = <<>>
    /\ other = NoOperand /\ args = NoArgs /\ out = NoCall
    /\ trail = <<>> /\ mutex = NoMutex /\ begin = NoInstance
    /\ Constructed(Ok(linky_rhg), "new")
    /\ procs = [i \in Invocations |->
                  [pc |-> "idle", kind |-> "other", tmp |-> 0, draw |-> FALSE]]

\* The command is invoked with a query: the coroutine is scheduled.
Invoke(i) ==
    /\ procs[i].pc \in {"idle", "done"}
    /\ \E q \in Queries :
         procs' = [procs EXCEPT ![i] = [pc |-> "invoked", kind |-> q,
                                        tmp |-> 0, draw |-> FALSE]]
    /\ UNCHANGED <<slots, call, sequence, memo, other, args, out, trail,
                   mutex, begin>>

\* if self.linky_rhg: one bool() on the shared generator, by invocation i.
LinkyRoll(i) ==
    /\ \E h \in Draw(procnow) :
         /\ IF h THEN RollHit ELSE RollMiss
         /\ hit' = (IF h THEN "hit" ELSE "miss")
         /\ ret' = <<"bool", IF h THEN 1 ELSE 0>>
         /\ procs' = [procs EXCEPT ![i].pc = "sending", ![i].draw = h,
                                   ![i].tmp = procs[i].tmp + 1]
    /\ op' = "bool" /\ err' = "none" /\ res' = NoInstance
    /\ fresh' = FALSE /\ run' = "mixed"
    /\ UNCHANGED <<alive, epsilon, lock, mean_proc, base_proc>>
    /\ UNCHANGED <<start_fc, yield_count, seq_ok>>

\* respond that rolls whatever the query is.
RespondRollsAlways(i) ==
    /\ procs[i].pc = "invoked"
    /\ LinkyRoll(i)
    /\ UNCHANGED <<memo, other, args, out, trail, mutex, begin>>

\* respond from its first statement to its await of send_message: the
\* 'state laws' branch, or the roll and the image or the stored message.
Respond(i) ==
    /\ procs[i].pc = "invoked"
    /\ IF procs[i].kind = "laws"
       THEN /\ procs' = [procs EXCEPT ![i].pc = "sending"]
            /\ UNCHANGED <<slots, call, sequence>>
       ELSE LinkyRoll(i)
    /\ UNCHANGED <<memo, other, args, out, trail, mutex, begin>>

\* await interaction.response.send_message(...) returns; respond returns.
Sent(i) ==
    /\ procs[i].pc = "sending"
    /\ procs' = [procs EXCEPT ![i].pc = "done"]
    /\ UNCHANGED <<slots, call, sequence, memo, other, args, out, trail,
                   mutex, begin>>

NextLinky ==
    \E i \in Invocations :
        \/ Invoke(i)
        \/ Respond(i)
        \/ Sent(i)

SpecLinky == InitLinky /\ [][NextLinky]_vars

\* ------------------------------------------------------------ claims

\* The misses a streak sequence can still draw before procnow is 1.
MissesLeft(p, base) ==
    IF p >= One THEN 0 ELSE (One - p + base - 1) \div base

\* C1: a streak sequence yields at most max_fails values: what it has
\* yielded plus what it can still yield before current_probability is 1
\* never exceeds max_fails, and at current_probability 1 the draw is a hit.
C1_StreakTerminates ==
    alive =>
      /\ yield_count <= max_fails(base_proc)
      /\ ~lock => yield_count + MissesLeft(procnow, base_proc) <= max_fails(base_proc)
      /\ procnow >= One => Draw(procnow) = {TRUE}

\* C1 witness: a sequence of several values ended by the forced hit.
C1_Witness ==
    /\ alive /\ op = "next" /\ hit = "hit"
    /\ yield_count >= 3
    /\ yield_count + 1 = max_fails(base_proc)

\* C2 as stated: once exhausted is true it stays true until reset(), so
\* iter() followed by next() without a reset() ends at once.
C2_ExhaustedUntilReset ==
    [][(lock /\ op' # "reset") => lock']_vars

\* C2 as amended: exhausted stays true until reset() or iter(); next() on
\* an exhausted instance ends at once, yields nothing, draws nothing and
\* changes no slot; iter() clears exhausted, so the next() after it draws.
C2_ExhaustedUntilRearmed ==
    [][/\ (lock /\ op' \notin {"reset", "iter"}) => lock'
       /\ (lock /\ op' = "next") =>
             /\ hit' = "none"
             /\ ret' = <<"StopIteration", 0>>
             /\ UNCHANGED <<slots, sequence>>
       /\ op' \in {"reset", "iter"} => ~lock'
       /\ (op' = "next" /\ ~lock) => hit' \in {"hit", "miss"}]_vars

\* C2 witness: next() was called on an exhausted instance.
C2_Witness ==
    /\ alive /\ lock /\ op = "next" /\ hit = "none"
    /\ ret = <<"StopIteration", 0>>

\* C3 as stated: every streak sequence, in any reachable state, yields
\* exactly 1, 2, ..., k.
C3_YieldsFromOne ==
    alive => seq_ok

\* C3 as amended: a sequence that begins with fail_count = f and has no
\* single roll in between yields f + 1, f + 2, ..., f + k and stops at the
\* hit, which is not yielded; it is 1, 2, ..., k exactly when f = 0.
C3_YieldsFromStart ==
    (alive /\ run \in {"fresh", "resumed"}) =>
      /\ seq_ok <=> (yield_count = 0 \/ start_fc = 0)
      /\ (op = "next" /\ hit = "miss") => ret = <<"yield", start_fc + yield_count>>
      /\ (op = "next" /\ hit = "hit") => ret = <<"StopIteration", 0>>
      /\ fail_count = (IF lock THEN 0 ELSE start_fc + yield_count)

\* C3 witness: a sequence resumed at fail_count > 0 has yielded twice.
C3_Witness ==
    /\ alive /\ run = "resumed" /\ start_fc > 0 /\ yield_count >= 2
    /\ op = "next" /\ hit = "miss"

C5_HitResetsChance ==
    (alive /\ hit = "hit") => procnow = base_proc

\* The invariants of section 3 on an instance i.
Valid(i) ==
    i.alive =>
      /\ 0 <= i.mean_proc /\ i.mean_proc <= One
      /\ 0 <= i.base_proc /\ i.base_proc <= One
      /\ i.base_proc <= i.procnow /\ i.procnow <= One
      /\ i.fail_count >= 0
      /\ i.epsilon <= EpsilonMax

\* C6: every instance that exists, built by a constructor or returned by
\* an operator, satisfies the data-model invariants in every state.
C6_InstanceValid ==
    Valid(Self) /\ Valid(res)

\* C6 witness: an operator returned an instance while self was in the
\* middle of an escalated streak.
C6_Witness ==
    /\ alive /\ res.alive
    /\ procnow > base_proc /\ fail_count > 0

\* C7: one step of a streak iteration on a non-exhausted instance.
C7_StreakStep ==
    [][(op' = "next" /\ ~lock) =>
         /\ hit' \in {"hit", "miss"}
         /\ hit' = "hit" => procnow > 0
         /\ hit' = "miss" => procnow < One
         /\ hit' = "hit" =>
              /\ last_count' = fail_count + 1
              /\ procnow' = base_proc
              /\ lock'
              /\ ret' = <<"StopIteration", 0>>
              /\ yield_count' = yield_count
         /\ hit' = "miss" =>
              /\ procnow' = Min(One, procnow + base_proc)
              /\ fail_count' = fail_count + 1
              /\ ret' = <<"yield", fail_count + 1>>
              /\ yield_count' = yield_count + 1
         /\ UNCHANGED <<mean_proc, base_proc, epsilon>>]_vars

\* C7 witness: a step hit after earlier steps had missed and escalated.
C7_Witness ==
    /\ alive /\ op = "next" /\ hit = "hit" /\ lock
    /\ yield_count >= 2 /\ last_count >= 3

\* C8: a single roll draws against current_probability and changes only
\* the counters.
C8_SingleRoll ==
    [][op' \in {"bool", "int"} =>
         /\ hit' \in {"hit", "miss"}
         /\ hit' = "hit" => procnow > 0
         /\ hit' = "miss" => procnow < One
         /\ hit' = "hit" => (last_count' = fail_count + 1 /\ fail_count' = 0)
         /\ hit' = "miss" => (fail_count' = fail_count + 1 /\ UNCHANGED last_count)
         /\ ret' = <<op', IF hit' = "hit" THEN 1 ELSE 0>>
         /\ UNCHANGED <<procnow, lock, base_proc, mean_proc, epsilon>>]_vars

\* C8 witness: an int coercion hit against a chance a streak had left
\* escalated, and left it escalated.
C8_Witness ==
    /\ alive /\ op = "int" /\ hit = "hit" /\ ret = <<"int", 1>>
    /\ procnow > base_proc /\ last_count >= 2

\* C9: at every hit last_count is one plus the misses drawn since the
\* most recent hit, construction or reset(); for a sequence begun on a
\* fresh or reset instance and run with no single roll in between, it is
\* the number of yielded values plus one.
C9_LastCount ==
    [][/\ hit' = "hit" => last_count' = misses + 1
       /\ (op' = "next" /\ hit' = "hit" /\ run = "fresh") =>
             last_count' = yield_count + 1]_vars

\* C9 witness: a sequence on a reset instance ended after two values.
C9_Witness ==
    /\ alive /\ op = "next" /\ hit = "hit" /\ run = "fresh"
    /\ yield_count >= 2 /\ last_count = yield_count + 1
    /\ procnow = base_proc

\* C10: reset() clears fail_count and exhausted and leaves the
\* probabilities and epsilon alone.
C10_Reset ==
    [][op' = "reset" =>
         /\ fail_count' = 0
         /\ ~lock'
         /\ UNCHANGED <<base_proc, mean_proc, epsilon>>]_vars

\* C10 witness: reset() was called in the middle of an escalated streak
\* that an earlier streak of three attempts preceded.
C10_Witness ==
    /\ alive /\ op = "reset" /\ fail_count = 0 /\ ~lock
    /\ procnow > base_proc /\ last_count >= 3

\* The probability and the precision the call was made with.
ArgProb == args[1]
ArgEps == args[2]
InRange(x) == 0 <= x /\ x <= One
Constructors == {"new", "from_base"}
Conversions == {"base_to_mean", "mean_to_base"}

C12_MeanToBaseRejectsEpsilon ==
    (op = "mean_to_base" /\ ArgEps > EpsilonMax) => out = EpsilonTooLarge

\* C12 as amended: it is the constructors that fail with the error about
\* epsilon whenever epsilon > 1e-4, for every p, and build no instance;
\* mean_to_base does not look at the size of epsilon: with epsilon > 1e-4
\* it rejects p outside [0, 1] as ever, divides by zero at p = 0 and
\* otherwise returns a base probability.
C12_ConstructorRejectsEpsilon ==
    ArgEps > EpsilonMax =>
      /\ op \in Constructors => (out = EpsilonTooLarge /\ ~alive)
      /\ op = "mean_to_base" =>
           IF ~InRange(ArgProb) THEN out = InvalidProbability
           ELSE IF ArgProb = 0 THEN out.kind = "ZeroDivisionError"
           ELSE out.kind = "ok" /\ 0 < out.val /\ out.val <= ArgProb

\* C12 witness: the constructor refused a valid mean for its precision.
C12_Witness ==
    /\ op = "new" /\ ArgEps > EpsilonMax /\ 0 < ArgProb /\ ArgProb < One
    /\ out = EpsilonTooLarge /\ ~alive

\* C13: a constructor called with p in [0, 1] and 0 < epsilon <= 1e-4
\* returns a valid instance; called with anything else it raises a
\* ValueError; it does nothing else.
C13_ConstructionTotal ==
    op \in Constructors =>
      IF InRange(ArgProb) /\ 0 < ArgEps /\ ArgEps <= EpsilonMax
      THEN out.kind = "ok" /\ alive /\ Valid(Self)
      ELSE out.kind = "ValueError" /\ ~alive

\* The names the operators are recorded under.
ReflectedOps == {Reflected(c) : c \in ArithmeticOps}
OperatorNames == ArithmeticOps \cup ReflectedOps \cup LogicalOps \cup {"invert"}
Unreflected(c) == CHOOSE d \in ArithmeticOps : Reflected(d) = c

\* An instance as the operand of an operator.
AsOperand(i) == Operand("rhg", 0, i)
\* A plain number as the operand of an operator.
Number(k) == Operand("number", k, NoInstance)

\* C14: self == other is true for a generator other exactly when the
\* rounded means are equal and the round_places are equal, and for a plain
\* number other exactly when the rounded mean is that number.
C14_Equality ==
    op = "eq" =>
      /\ other.type = "rhg" =>
           (ret = <<"bool", 1>>
              <=> /\ mean_proc = other.inst.mean_proc
                  /\ round_places(epsilon) = round_places(other.inst.epsilon))
      /\ other.type = "number" =>
           (ret = <<"bool", 1>> <=> mean_proc = other.num)
      /\ ret \in {<<"bool", 0>>, <<"bool", 1>>}

\* C14 witness: two generators of the same mean, one of epsilon 1e-6 and
\* one of epsilon 1e-5, compared unequal.
C14_Witness ==
    /\ op = "eq" /\ other.type = "rhg"
    /\ mean_proc = other.inst.mean_proc
    /\ epsilon = EPSILON /\ other.inst.epsilon = 10 * EPSILON
    /\ ret = <<"bool", 0>>

\* C15: an arithmetic operator on a generator and a generator or a number,
\* either way round, returns a generator whose mean is the op of the two
\* means, rounded, and whose epsilon is the larger of the two (the
\* generator's own with a number) whenever the op's value lies in [0, 1],
\* and raises ValueError and returns nothing whenever it lies outside.
C15_Arithmetic ==
    (op \in ArithmeticOps \cup ReflectedOps /\ other.type \in {"rhg", "number"}) =>
      LET rev == op \in ReflectedOps
          c == IF rev THEN Unreflected(op) ELSE op
          v == IF rev THEN Apply(c, OperandValue(other), mean_proc)
               ELSE Apply(c, mean_proc, OperandValue(other))
          e == IF other.type = "rhg" THEN Max(epsilon, other.inst.epsilon)
               ELSE epsilon
      IN  v.kind = "ok" =>
            IF InRange(v.val)
            THEN /\ res.alive /\ err = "none"
                 /\ res.mean_proc = Round(v.val, round_places(e))
                 /\ res.epsilon = e
            ELSE ~res.alive /\ err = "ValueError"

\* C16: an operator, whether it returns or raises, leaves every slot of
\* both operands as it was, and the generator it returns starts with
\* fail_count 0, not exhausted, at its own base probability.
C16_OperatorsPure ==
    [][op' \in OperatorNames =>
         /\ UNCHANGED <<slots, other>>
         /\ res'.alive =>
              /\ res'.fail_count = 0
              /\ ~res'.lock
              /\ res'.procnow = res'.base_proc]_vars

\* C16 witness: an operator returned a generator while self was in an
\* escalated streak and the other operand was exhausted.
C16_Witness ==
    /\ op \in OperatorNames /\ res.alive
    /\ fail_count > 0 /\ procnow > base_proc
    /\ other.type = "rhg" /\ other.inst.lock

\* C17: with a generator or a number in [0, 1] as the other operand, &, |
\* and ^ return a generator of mean p1*p2, p1 + p2 - p1*p2 and
\* p1 + p2 - 2*p1*p2, and ~ one of mean 1 - p1; with any other operand
\* &, | and ^ raise TypeError and return nothing.
C17_Logical ==
    /\ op = "invert" =>
         (res.alive /\ res.mean_proc = One - mean_proc)
    /\ (op \in LogicalOps /\ other.type # "none") =>
         LET p1 == mean_proc
             p2 == OperandValue(other)
             e == IF other.type = "rhg" THEN Max(epsilon, other.inst.epsilon)
                  ELSE epsilon
             m == CASE op = "and" -> FloatMul(p1, p2)
                    [] op = "or" -> p1 + p2 - FloatMul(p1, p2)
                    [] op = "xor" -> p1 + p2 - 2 * FloatMul(p1, p2)
         IN  IF other.type = "rhg" \/ (other.type = "number" /\ InRange(other.num))
             THEN /\ res.alive /\ err = "none"
                  /\ res.mean_proc = Round(m, round_places(e))
                  /\ op = "and" => Instance(MathOp("mul", Self, other)) = res
             ELSE ~res.alive /\ err = "TypeError"

\* a + b, a * b, 2 * a, (2 * a) * b and the two differences, each one a
\* generator or the exception its construction raised.
Sum(a, b) == MathOp("add", a, AsOperand(b))
Product(a, b) == MathOp("mul", a, AsOperand(b))
Twice(a) == RevMathOp("mul", a, Number(2 * One))
TwiceProduct(a, b) ==
    IF Twice(a).kind = "ok" THEN Product(Twice(a).val, b) ELSE Twice(a)
Difference(x, y) ==
    IF x.kind # "ok" THEN x
    ELSE IF y.kind # "ok" THEN y
    ELSE MathOp("sub", x.val, AsOperand(y.val))
StepwiseOr(a, b) == Difference(Sum(a, b), Product(a, b))
StepwiseXor(a, b) == Difference(Sum(a, b), TwiceProduct(a, b))

\* Two outcomes are generators of one precision whose means are at most
\* one unit of that precision apart.
WithinOneUnit(x, y) ==
    /\ x.kind = "ok" /\ y.kind = "ok"
    /\ round_places(x.val.epsilon) = round_places(y.val.epsilon)
    /\ Abs(x.val.mean_proc - y.val.mean_proc)
         <= 10^(OneDigits - round_places(x.val.epsilon))
\* x lies halfway between two multiples of 10^-places.
Halfway(x, places) ==
    2 * (x % 10^(OneDigits - places)) = 10^(OneDigits - places)

\* The arithmetic side that goes with the logical operator c.
Stepwise(c, a, b) == IF c = "or" THEN StepwiseOr(a, b) ELSE StepwiseXor(a, b)
\* The product the arithmetic side of c rounds before it subtracts.
StepwiseProduct(c, a, b) ==
    IF c = "or" THEN FloatMul(a.mean_proc, b.mean_proc)
    ELSE FloatMul(Twice(a).val.mean_proc, b.mean_proc)

\* self c other returned a generator for two generators of one epsilon,
\* and every step of the arithmetic side is constructed.
StepwiseCase(c) ==
    /\ op = c /\ res.alive
    /\ other.type = "rhg" /\ other.inst.epsilon = epsilon
    /\ Stepwise(c, Self, other.inst).kind = "ok"

\* C18 as stated: whenever every step is constructed, a | b equals
\* a + b - a*b and a ^ b equals a + b - 2*a*b.
C18_StepwiseEqual ==
    \A c \in {"or", "xor"} :
        StepwiseCase(c) =>
            Equal(res, AsOperand(Stepwise(c, Self, other.inst).val))

\* C18 as amended: whenever every step is constructed, the two sides have
\* the same round_places and means at most one unit of 10^-round_places
\* apart; they are equal whenever the product that the arithmetic side
\* rounds (a*b for |, (2*a)*b for ^) is not halfway between two multiples
\* of 10^-round_places.
C18_StepwiseWithinOneUnit ==
    \A c \in {"or", "xor"} :
        StepwiseCase(c) =>
            /\ WithinOneUnit(Ok(res), Stepwise(c, Self, other.inst))
            /\ ~Halfway(StepwiseProduct(c, Self, other.inst), round_places(epsilon)) =>
                 Equal(res, AsOperand(Stepwise(c, Self, other.inst).val))

\* C18 witness: a = 0.3125 and b = 0.5 at epsilon 1e-4, whose product
\* 0.15625 is halfway: a | b is 0.6562 and a + b - a*b is 0.6563.
C18_Witness ==
    /\ StepwiseCase("or")
    /\ mean_proc = 5 * (One \div 16) /\ other.inst.mean_proc = One \div 2
    /\ epsilon = EpsilonMax
    /\ res.mean_proc = 65620000
    /\ StepwiseOr(Self, other.inst).val.mean_proc = 65630000

TimesFive(mean) ==
    /\ alive /\ mean_proc = mean /\ epsilon = EPSILON
    /\ other = Number(5 * One) /\ op \in {"mul", "rmul"}

\* C20 as stated: with a = ChainProofRHG(0.1), a * 5 and 5 * a both
\* compare equal to 1.0.
C20_TenthTimesFive ==
    TimesFive(One \div 10) => (res.alive /\ Equal(res, Number(One)))

\* C20 as amended: a * 5 and 5 * a are the same generator; for
\* a = ChainProofRHG(0.2), the a of the self-test at that point, both
\* compare equal to 1.0; for a = ChainProofRHG(0.1) both compare equal to
\* 0.5 and not to 1.0.
C20_FifthTimesFive ==
    /\ TimesFive(One \div 5) => (res.alive /\ Equal(res, Number(One)))
    /\ TimesFive(One \div 10) =>
         /\ res.alive /\ Equal(res, Number(One \div 2))
         /\ ~Equal(res, Number(One))
    /\ (alive /\ other = Number(5 * One)) =>
         MathOp("mul", Self, other) = RevMathOp("mul", Self, other)

\* C20 witness: 5 * a was computed for a = ChainProofRHG(0.2) and has
\* mean 1.0.
C20_Witness ==
    /\ TimesFive(One \div 5) /\ op = "rmul"
    /\ res.alive /\ res.mean_proc = One

\* The base probabilities base_to_mean is compared on: 0.01, 0.02, ...,
\* 1.00, and 1e-4 either side of 1/2, 1/3, 1/4, 1/5 and 1/10, where the
\* branch or the number of terms of the series changes.
Probes ==
    {k * (One \div 100) : k \in 1..100}
    \cup UNION {{One \div n - 10^4, One \div n + 10^4} : n \in {2, 3, 4, 5, 10}}

\* The base probability and the precision the round trip started from.
TripBase == args[1]
TripPrecision == args[2]

\* C21: base_to_mean is strictly increasing on (0, 1]: its value at c is
\* below its value at every larger base probability and above its value
\* at every smaller one, across 1/2 and across the points 1/n.
C21_StrictlyIncreasing ==
    (op = "base_to_mean" /\ Len(trail) = 1) =>
      \A c \in Probes :
          /\ base_to_mean(c).kind = "ok"
          /\ c > TripBase => base_to_mean(c).val > trail[1].val
          /\ c < TripBase => base_to_mean(c).val < trail[1].val

\* C21 witness: base_to_mean(0.5), on the closed form, lies above the
\* series at 0.5 - 1e-4 and below the closed form at 0.5 + 1e-4.
C21_Witness ==
    /\ op = "base_to_mean" /\ Len(trail) = 1 /\ TripBase = One \div 2
    /\ base_to_mean(One \div 2 - 10^4).val < trail[1].val
    /\ trail[1].val < base_to_mean(One \div 2 + 10^4).val

\* C22 as stated: mean_to_base(base_to_mean(c), epsilon) is less than
\* epsilon away from c, for every c in (0, 1).
C22_BaseRoundTrip ==
    (Len(trail) >= 2 /\ TripBase < One) =>
      /\ trail[2].kind = "ok"
      /\ Abs(trail[2].val - TripBase) < TripPrecision

\* C22 as amended: the mean of mean_to_base(base_to_mean(c), epsilon) is
\* less than epsilon away from base_to_mean(c); the base itself is less
\* than 2 * epsilon away from c, and at most four units of the last digit
\* away when base_to_mean(c) >= 2/3, where mean_to_base is a closed form.
C22_MeanRoundTrip ==
    (Len(trail) = 3 /\ TripBase < One) =>
      /\ trail[3].kind = "ok"
      /\ Abs(trail[3].val - trail[1].val) < TripPrecision
      /\ Abs(trail[2].val - TripBase) < 2 * TripPrecision
      /\ 3 * trail[1].val >= 2 * One => Abs(trail[2].val - TripBase) <= 4

\* C22 witness: c = 0.38 at epsilon 1e-4 comes back as a base more than
\* epsilon away whose mean is less than epsilon away.
C22_Witness ==
    /\ Len(trail) = 3 /\ TripBase = 38 * (One \div 100)
    /\ TripPrecision = EpsilonMax
    /\ Abs(trail[2].val - TripBase) > TripPrecision
    /\ Abs(trail[3].val - trail[1].val) < TripPrecision

SeriesChance(c, i) == Min(One, c * i)
\* The last attempt of the series of base_to_mean(c).
SeriesAttempts(c) == CeilInv(c)
\* The series branch of base_to_mean, whatever c is.
SeriesMean(c) == DivQ(One, Series(2, CeilInv(c), c, <<c, c>>)[2])

Coupled == procnow = Min(One, (fail_count + 1) * base_proc)

\* C27 as stated: in every state reached by single rolls, streak steps
\* and reset(), current_probability = min(1, (fail_count + 1) * base).
C27_Coupling == alive => Coupled

\* C27 as amended: the coupling holds after construction and is kept by
\* every streak step and every iter(); whatever the calls,
\* current_probability is min(1, k * base) for some k >= 1, and only a
\* streak step changes it (a single roll and reset() change fail_count and
\* leave it).
C27_CouplingUnderStreakSteps ==
    /\ []((alive /\ op \in Constructors) => Coupled)
    /\ [][(alive /\ Coupled /\ op' \in {"iter", "next"}) => Coupled']_vars
    /\ [][(alive /\ op' \notin {"next"}) => procnow' = procnow]_vars
    /\ [](alive => \E k \in 1..(MaxFailCount + 1) :
                      procnow = Min(One, k * base_proc))

\* C27 witness: a streak step missed for the second time in a row and
\* left the chance at min(1, 3 * base), above base.
C27_Witness ==
    /\ alive /\ op = "next" /\ hit = "miss"
    /\ fail_count = 2 /\ procnow > base_proc /\ Coupled

\* hash(x) = hash((x._mean_proc, x._epsilon)): two hashes are taken to
\* be equal when the tuples are.
Hash(x) == <<x.mean_proc, x.epsilon>>

\* C28: two generators that compare equal have the same hash, and no
\* step changes the hash of a generator.
C28_HashConsistent ==
    /\ []((op = "eq" /\ other.type = "rhg" /\ ret = <<"bool", 1>>) =>
            Hash(Self) = Hash(other.inst))
    /\ [][alive => UNCHANGED <<mean_proc, epsilon>>]_vars

\* x == y for operands x and y, each a generator or a plain number: the
\* __eq__ of the generator among them, float equality between numbers.
Eq(x, y) ==
    IF x.type = "rhg" THEN Equal(x.inst, y)
    ELSE IF y.type = "rhg" THEN Equal(y.inst, x)
    ELSE x.num = y.num

\* The generators and numbers at hand: self, the other operand, the
\* result of the last operator, the mean of self as a plain number, and
\* the number 1.
Comparands ==
    {AsOperand(Self), Number(mean_proc), Number(One)}
    \cup (IF other.type \in {"rhg", "number"} THEN {other} ELSE {})
    \cup (IF res.alive THEN {AsOperand(res)} ELSE {})

\* C29 as stated: x == y and y == z imply x == z for generators and
\* numbers x, y and z.
C29_Transitive ==
    alive =>
      \A x \in Comparands, y \in Comparands, z \in Comparands :
          (Eq(x, y) /\ Eq(y, z)) => Eq(x, z)

\* C29 as amended: == is reflexive and symmetric; x == y and y == z imply
\* x == z whenever y is a generator or x or z is a number; two generators
\* equal to the same number are equal exactly when their round_places are
\* equal.
C29_TransitiveThroughGenerators ==
    alive =>
      \A x \in Comparands :
          /\ Eq(x, x)
          /\ \A y \in Comparands :
                /\ Eq(x, y) <=> Eq(y, x)
                /\ Eq(x, y) =>
                     \A z \in Comparands :
                         Eq(y, z) =>
                           IF y.type = "number" /\ x.type = "rhg" /\ z.type = "rhg"
                           THEN Eq(x, z) <=> round_places(x.inst.epsilon)
                                               = round_places(z.inst.epsilon)
                           ELSE Eq(x, z)

\* C29 witness: ChainProofRHG(0.5, 1e-6) and ChainProofRHG(0.5, 1e-5)
\* compared unequal, and both equal the number 0.5.
C29_Witness ==
    /\ op = "eq" /\ other.type = "rhg" /\ ret = <<"bool", 0>>
    /\ epsilon = EPSILON /\ other.inst.epsilon = 10 * EPSILON
    /\ Eq(AsOperand(Self), Number(One \div 2))
    /\ Eq(other, Number(One \div 2))

\* C30: ~a, and a & x, a | x, a ^ x for a generator or a number in [0, 1]
\* as x, return a generator with a mean in [0, 1] and raise nothing.
C30_LogicalClosed ==
    (op = "invert" \/ (op \in LogicalOps /\ LogicOperand(other))) =>
      /\ err = "none"
      /\ res.alive
      /\ InRange(res.mean_proc) /\ InRange(res.base_proc)
      /\ res.procnow = res.base_proc /\ res.fail_count = 0 /\ ~res.lock

\* The instances the call of kind k can leave when it runs on the
\* instance i from its first step to its last with no other call between.
After(k, i) ==
    IF k = "bool" THEN {Rolled(i, h) : h \in Draw(i.procnow)}
    ELSE {Stepped(i, h) : h \in Draw(i.procnow)}

\* The instances the calls of the two threads can leave when one runs
\* after the other, in either order.
Serial ==
    UNION {After(procs[2].kind, i) : i \in After(procs[1].kind, begin)}
    \cup UNION {After(procs[1].kind, i) : i \in After(procs[2].kind, begin)}

\* Both threads have returned.
AllDone == \A t \in Threads : procs[t].pc = "done"

C26_OneRollPerInvocation ==
    /\ [](\A i \in Invocations :
            /\ procs[i].pc \in {"sending", "done"} =>
                 procs[i].tmp = (IF procs[i].kind = "laws" THEN 0 ELSE 1)
            /\ procs[i].pc \in {"idle", "invoked"} => procs[i].tmp = 0)
    /\ [](procnow = base_proc /\ ~lock /\ op \in {"new", "bool"})
    /\ [][<<fail_count, last_count>>' # <<fail_count, last_count>> =>
            \E i \in Invocations :
                /\ procs[i].pc = "invoked" /\ procs[i].kind = "other"
                /\ procs'[i].pc = "sending" /\ procs'[i].tmp = 1
                /\ \A j \in Invocations \ {i} : procs'[j] = procs[j]]_vars

\* C26 witness: with two invocations pending at their await, a third one
\* rolled, after earlier rolls had missed, and the chance is still the
\* base probability.
C26_Witness ==
    /\ op = "bool" /\ fail_count >= 2 /\ procnow = base_proc
    /\ \E i \in Invocations : procs[i].pc = "sending" /\ procs[i].kind = "laws"
    /\ \E i \in Invocations : procs[i].pc = "sending" /\ procs[i].kind = "other"
    /\ \E i \in Invocations : procs[i].pc = "invoked"

====
